---------------------------- MODULE Spec2Model ----------------------------
(***************************************************************************)
(* Model of src/main.py: the POST /ask handler ask_video_topic and its two *)
(* helpers extract_video_id and seconds_to_hhmmss.                         *)
(*                                                                         *)
(* Text is a sequence of tokens.  A token is a TLA+ string: usually one    *)
(* character, and for fixed literals (message texts, JSON documents) the   *)
(* whole run of characters as one token.  A newline is always a token of   *)
(* its own, and so is every character the handler inspects one by one      *)
(* (the characters of a URL, of a clock string, of the fence "```json").   *)
(* Python values are records tagged by "type".                             *)
(***************************************************************************)
EXTENDS Integers, Sequences, FiniteSets, TLC

VARIABLES
    aiToken,          \* os.getenv("AI_API_TOKEN")
    chatUrl,          \* os.getenv("CHAT_URL")
    pc,               \* per request: where the handler stands
    request,          \* per request: the AskRequest body
    video_id,         \* per request: extract_video_id's result
    fetched,          \* per request: what YouTubeTranscriptApi().fetch did
    payload,          \* per request: the prompt parts sent to the chat URL
    response,         \* per request: what requests.post returned
    result,           \* per request: the HTTP response of POST /ask
    fetchCalls,       \* per request: number of transcript fetches issued
    postCalls,        \* per request: number of requests.post calls issued
    seconds,          \* input of seconds_to_hhmmss, in ticks
    time_str,         \* output of seconds_to_hhmmss
    transcript_list,  \* input of the formatting loop
    formatted_transcript  \* output of the formatting loop

vars == <<aiToken, chatUrl, pc, request, video_id, fetched, payload, response,
          result, fetchCalls, postCalls, seconds, time_str, transcript_list,
          formatted_transcript>>

handlerVars == <<aiToken, chatUrl, pc, request, video_id, fetched, payload,
                 response, result, fetchCalls, postCalls>>

clockVars == <<seconds, time_str>>

formatVars == <<transcript_list, formatted_transcript>>

---------------------------------------------------------------------------
(* Bounds of the model.                                                    *)

\* Number of requests handled concurrently.
NumRequests == 2

\* A float offset is a whole number of ticks; TicksPerSecond ticks make a
\* second, so offsets are multiples of 1/TicksPerSecond.
TicksPerSecond == 4

\* Largest hour count among the clock inputs beyond the fixed samples.
MaxHours == 2

\* Longest transcript the formatting specification enumerates.
MaxSegments == 2

\* Longest model content the single-request specification enumerates.
MaxContentLen == 3

---------------------------------------------------------------------------
(* Text helpers.                                                           *)

Digit == <<"0","1","2","3","4","5","6","7","8","9">>

DigitChars == {"0","1","2","3","4","5","6","7","8","9"}

\* str(n) for an int n >= 0.
RECURSIVE IntStr(_)
IntStr(n) == IF n < 10 THEN <<Digit[n + 1]>>
             ELSE IntStr(n \div 10) \o <<Digit[(n % 10) + 1]>>

\* format(n, "02d") for an int n >= 0: at least two digits, zero padded.
Fmt02d(n) == IF n < 10 THEN <<"0">> \o IntStr(n) ELSE IntStr(n)

Range(s) == {s[i] : i \in 1..Len(s)}

\* All sequences over S of length at most n.
RECURSIVE SeqsUpTo(_, _)
SeqsUpTo(S, n) == IF n = 0 THEN {<<>>}
                  ELSE LET shorter == SeqsUpTo(S, n - 1)
                       IN  shorter \cup {Append(s, x) : s \in shorter, x \in S}

---------------------------------------------------------------------------
(* seconds_to_hhmmss (src/main.py 46-50).  The argument is a float; it is  *)
(* given here in ticks.                                                    *)

\* hours = int(seconds // 3600)
ClockHours(ticks) == ticks \div (3600 * TicksPerSecond)

\* The mutation: minutes taken from the whole offset, not from the rest of
\* the hour.
ClockMinutesNoMod(ticks) == ticks \div (60 * TicksPerSecond)

\* minutes = int((seconds % 3600) // 60)
ClockMinutes(ticks) == (ticks % (3600 * TicksPerSecond)) \div (60 * TicksPerSecond)

\* secs = int(seconds % 60)
ClockSecs(ticks) == (ticks % (60 * TicksPerSecond)) \div TicksPerSecond

seconds_to_hhmmss(ticks) ==
    Fmt02d(ClockHours(ticks)) \o <<":">> \o Fmt02d(ClockMinutes(ticks))
        \o <<":">> \o Fmt02d(ClockSecs(ticks))

---------------------------------------------------------------------------
(* The formatting loop of ask_video_topic (src/main.py 74-78).             *)

\* f"[{time_str}] {item['text']}\n"
FormatLine(item) ==
    <<"[">> \o seconds_to_hhmmss(item.start) \o <<"]", " ">> \o item.text \o <<"\n">>

\* formatted_transcript += ...
AppendLine(acc, item) == acc \o FormatLine(item)

RECURSIVE FormatFrom(_, _, _)
FormatFrom(acc, items, i) ==
    IF i > Len(items) THEN acc
    ELSE FormatFrom(AppendLine(acc, items[i]), items, i + 1)

FormatTranscript(items) == FormatFrom(<<>>, items, 1)

---------------------------------------------------------------------------
(* Python values and exceptions.                                           *)

PyNone == [type |-> "NoneType", v |-> <<>>]

PyStr(s) == [type |-> "str", v |-> s]

PyInt(n) == [type |-> "int", v |-> n]

\* A dict is a function from its keys to their values.
PyDict(d) == [type |-> "dict", v |-> d]

\* bool(x), as in "if not x".
Truthy(x) == CASE x.type = "NoneType" -> FALSE
               [] x.type = "str" -> Len(x.v) > 0
               [] x.type = "int" -> x.v # 0
               [] x.type = "dict" -> DOMAIN x.v # {}

\* str(x) for the values a "timestamp" key holds here.
PyToStr(x) == CASE x.type = "str" -> x.v
                [] x.type = "int" -> IntStr(x.v)
                [] x.type = "NoneType" -> <<"None">>
                [] x.type = "dict" -> <<"{...}">>

\* d.get(key): None when the key is absent.
DictGet(d, key) == IF key \in DOMAIN d.v THEN d.v[key] ELSE PyNone

\* An exception: HTTPException carries status_code and detail; any other
\* exception carries its message in detail and no status.
HTTPException(status, detail) ==
    [type |-> "HTTPException", status_code |-> status, detail |-> detail]

OtherException(type, message) ==
    [type |-> type, status_code |-> 0, detail |-> message]

\* str(e).  An HTTPException renders "<status_code>: <detail>"; any other
\* exception renders its message.
StrException(e) ==
    IF e.type = "HTTPException"
    THEN IntStr(e.status_code) \o <<":", " ">> \o e.detail
    ELSE e.detail

\* The HTTP response FastAPI sends for a raised HTTPException.
ErrorResponse(e) == [status_code |-> e.status_code, detail |-> e.detail]

\* except Exception as e: raise HTTPException(status_code=500, detail=str(e))
\* (src/main.py 151-152).  HTTPException is an Exception, so the ones the
\* handler raises itself are caught here too.
OuterHandler(e) == ErrorResponse(HTTPException(500, StrException(e)))

---------------------------------------------------------------------------
(* extract_video_id (src/main.py 38-43).                                   *)

IdLen == 11

IdChars ==
    {"0","1","2","3","4","5","6","7","8","9","A","B","C","D","E","F","G",
     "H","I","J","K","L","M","N","O","P","Q","R","S","T","U","V","W","X",
     "Y","Z","a","b","c","d","e","f","g","h","i","j","k","l","m","n","o",
     "p","q","r","s","t","u","v","w","x","y","z","_","-"}

\* ([0-9A-Za-z_-]{11}) matches at position j.
IdAt(url, j) ==
    /\ j + IdLen - 1 <= Len(url)
    /\ \A k \in j..(j + IdLen - 1) : url[k] \in IdChars

\* Where group 1 starts when (?:v=|\/) matches at position i, 0 when the
\* pattern does not match at i.
GroupStart(url, i) ==
    IF /\ url[i] = "v"
       /\ i + 1 <= Len(url)
       /\ url[i + 1] = "="
       /\ IdAt(url, i + 2)
    THEN i + 2
    ELSE IF url[i] = "/" /\ IdAt(url, i + 1) THEN i + 1 ELSE 0

MatchStarts(url) == {i \in 1..Len(url) : GroupStart(url, i) # 0}

Min(S) == CHOOSE x \in S : \A y \in S : x <= y

Max(S) == CHOOSE x \in S : \A y \in S : x >= y

InvalidUrl == <<"Invalid YouTube URL">>

\* re.search takes the leftmost match; no match raises HTTPException 400.
extract_video_id(url) ==
    IF MatchStarts(url) = {}
    THEN [raised |-> TRUE, exc |-> HTTPException(400, InvalidUrl), value |-> <<>>]
    ELSE LET j == GroupStart(url, Min(MatchStarts(url)))
         IN  [raised |-> FALSE, exc |-> PyNone,
              value |-> SubSeq(url, j, j + IdLen - 1)]

---------------------------------------------------------------------------
(* The transcript step (src/main.py 62-72).                                *)

SubtitlesDisabled ==
    <<"The creator disabled subtitles for this video. The text-hack won't work here!">>

NoTranscript == <<"No transcript found for this video.">>

TranscriptErrorPrefix == <<"Transcript error: ">>

\* The except clauses of the inner try: what is raised for an exception of
\* YouTubeTranscriptApi().fetch.
TranscriptException(e) ==
    CASE e.type = "TranscriptsDisabled" -> HTTPException(400, SubtitlesDisabled)
      [] e.type = "NoTranscriptFound" -> HTTPException(400, NoTranscript)
      [] OTHER -> HTTPException(400, TranscriptErrorPrefix \o StrException(e))

---------------------------------------------------------------------------
(* The completion step (src/main.py 80-149).                               *)

CredentialsMissing == <<"API credentials missing in .env file">>

AIPipeErrorPrefix == <<"AIPipe Error: ">>

InvalidJsonPrefix == <<"AI returned invalid JSON: ">>

Sentinel == <<"0","0",":","0","0",":","0","0">>

ModelName == "google/gemini-2.0-flash-001"

StatusOk == 200

\* The mutation: a missing token or URL is not noticed.
CredentialsAlwaysOk(token, url) == TRUE

\* not (not ai_token or not chat_url)
CredentialsOk(token, url) == Truthy(token) /\ Truthy(url)

\* The arguments of requests.post(chat_url, headers=headers, json=payload):
\* the prompt is the fixed text with the topic and the formatted transcript
\* put in.
PostArgs(token, url, topic, transcript) ==
    [chat_url |-> url,
     authorization |-> <<"Bearer ">> \o PyToStr(token),
     model |-> ModelName,
     prompt_topic |-> topic,
     prompt_transcript |-> transcript]

Whitespace == {" ", "\n", "\t", "\r"}

\* The token of the backquote character, which a TLA+ string cannot hold.
Backquote == "<backquote>"

\* The characters of the argument "```json" of str.strip.
FenceJsonChars == {Backquote, "j", "s", "o", "n"}

\* The characters of the argument "```" of str.strip.
FenceChars == {Backquote}

\* s.strip(chars): removes from both ends every character that is in chars,
\* so what stays runs from the first to the last character not in chars.
\* (The singleton set binds t to the value of s, so that a strip of a strip
\* evaluates the inner one once.)
Strip(s, chars) ==
    CHOOSE out \in
        {LET keep == {i \in 1..Len(t) : t[i] \notin chars}
         IN  IF keep = {} THEN <<>> ELSE SubSeq(t, Min(keep), Max(keep)) :
            t \in {s}} : TRUE

\* raw_content.strip().strip("```json").strip("```").strip()
CleanContent(s) ==
    Strip(Strip(Strip(Strip(s, Whitespace), FenceJsonChars), FenceChars), Whitespace)

\* The JSON documents of the model, each one token, and json.loads of each.
JsonTexts ==
    {"{\"timestamp\": \"00:02:15\"}", "{\"timestamp\": \"05:30\"}",
     "{\"timestamp\": \"garbage\"}", "{\"timestamp\": \"1:02:03:04\"}",
     "{\"timestamp\": \"\"}", "{\"timestamp\": null}", "{\"timestamp\": 75}",
     "{\"timestamp\": 0}", "{}"}

JsonValue(tok) ==
    CASE tok = "{\"timestamp\": \"00:02:15\"}" ->
            PyDict([timestamp |-> PyStr(<<"0","0",":","0","2",":","1","5">>)])
      [] tok = "{\"timestamp\": \"05:30\"}" ->
            PyDict([timestamp |-> PyStr(<<"0","5",":","3","0">>)])
      [] tok = "{\"timestamp\": \"garbage\"}" ->
            PyDict([timestamp |-> PyStr(<<"g","a","r","b","a","g","e">>)])
      [] tok = "{\"timestamp\": \"1:02:03:04\"}" ->
            PyDict([timestamp |-> PyStr(<<"1",":","0","2",":","0","3",":","0","4">>)])
      [] tok = "{\"timestamp\": \"\"}" -> PyDict([timestamp |-> PyStr(<<>>)])
      [] tok = "{\"timestamp\": null}" -> PyDict([timestamp |-> PyNone])
      [] tok = "{\"timestamp\": 75}" -> PyDict([timestamp |-> PyInt(75)])
      [] tok = "{\"timestamp\": 0}" -> PyDict([timestamp |-> PyInt(0)])
      [] tok = "{}" -> PyDict(<<>>)

RECURSIVE StrInt(_)
StrInt(s) ==
    IF Len(s) = 0 THEN 0
    ELSE 10 * StrInt(SubSeq(s, 1, Len(s) - 1))
         + (CHOOSE d \in 0..9 : Digit[d + 1] = s[Len(s)])

\* A JSON number without sign, fraction or exponent.
IsJsonInt(s) ==
    /\ Len(s) > 0
    /\ Range(s) \subseteq DigitChars
    /\ (Len(s) > 1 => s[1] # "0")

\* json.loads(text): surrounding whitespace is allowed; anything that is not
\* one JSON document raises json.JSONDecodeError.
JsonLoads(text) ==
    LET doc == Strip(text, Whitespace)
    IN  IF Len(doc) = 1 /\ doc[1] \in JsonTexts
        THEN [raised |-> FALSE, value |-> JsonValue(doc[1])]
        ELSE IF IsJsonInt(doc)
        THEN [raised |-> FALSE, value |-> PyInt(StrInt(doc))]
        ELSE [raised |-> TRUE, value |-> PyNone]

\* The mutation: a missing or empty timestamp is passed on as it is.
TimestampNoSentinel(ai_timestamp) == PyToStr(ai_timestamp)

\* if not ai_timestamp: ai_timestamp = "00:00:00"; str(ai_timestamp)
TimestampOf(ai_timestamp) ==
    IF ~Truthy(ai_timestamp) THEN Sentinel ELSE PyToStr(ai_timestamp)

\* result_dict (src/main.py 143-149).
ResultDict(req, timestamp) ==
    [status_code |-> StatusOk, timestamp |-> timestamp,
     video_url |-> req.video_url, topic |-> req.topic]

\* A reply of requests.post: the status, the body text, and what
\* response.json() and ["choices"][0]["message"]["content"] give for it
\* (kind "body_not_json": json() raises; "no_choices": the lookup raises;
\* "completion": content is the value looked up).
Reply(status, text, kind, content) ==
    [status_code |-> status, text |-> text, kind |-> kind, content |-> content]

\* ai_data = response.json(); raw_content = ai_data["choices"][0]["message"]["content"]
CompletionContent(resp) ==
    CASE resp.kind = "body_not_json" ->
            [raised |-> TRUE, value |-> PyNone,
             exc |-> OtherException("JSONDecodeError",
                        <<"Expecting value: line 1 column 1 (char 0)">>)]
      [] resp.kind = "no_choices" ->
            [raised |-> TRUE, value |-> PyNone,
             exc |-> OtherException("KeyError", <<"'choices'">>)]
      [] OTHER -> [raised |-> FALSE, value |-> resp.content, exc |-> PyNone]

NoStripAttribute ==
    OtherException("AttributeError", <<"'NoneType' object has no attribute 'strip'">>)

NoGetAttribute ==
    OtherException("AttributeError", <<"'int' object has no attribute 'get'">>)

\* The mutation: text that is not JSON is answered with the sentinel.
InvalidJsonToSentinel(req, raw_content) == ResultDict(req, Sentinel)

\* except json.JSONDecodeError: raise HTTPException(status_code=500, ...)
\* (src/main.py 133-134), caught by the outer handler.
InvalidJson(req, raw_content) ==
    OuterHandler(HTTPException(500, InvalidJsonPrefix \o raw_content))

\* Step 6 (src/main.py 123-149): the content of the completion is parsed
\* and the response is built.
ParseCompletion(req, resp) ==
    LET c == CompletionContent(resp)
    IN  IF c.raised THEN OuterHandler(c.exc)
        ELSE IF c.value.type # "str" THEN OuterHandler(NoStripAttribute)
        ELSE LET raw_content == CleanContent(c.value.v)
                 parsed == JsonLoads(raw_content)
             IN  IF parsed.raised THEN InvalidJson(req, raw_content)
                 ELSE IF parsed.value.type # "dict"
                 THEN OuterHandler(NoGetAttribute)
                 ELSE ResultDict(req,
                          TimestampOf(DictGet(parsed.value, "timestamp")))

\* The mutation: the status of the reply is not looked at.
AfterPostNoStatusCheck(req, resp) == ParseCompletion(req, resp)

\* Steps 5 and 6 of the handler once requests.post has returned
\* (src/main.py 119-152): the HTTP response of POST /ask.
AfterPost(req, resp) ==
    IF resp.status_code # StatusOk
    THEN OuterHandler(HTTPException(400, AIPipeErrorPrefix \o resp.text))
    ELSE ParseCompletion(req, resp)

---------------------------------------------------------------------------
(* Inputs.                                                                 *)

Requests == 1..NumRequests

VideoIdA == <<"d","Q","w","4","w","9","W","g","X","c","Q">>

VideoIdB == <<"x","Y","z","_","-","0","1","2","3","4","5">>

\* https://youtube.com/watch?v=dQw4w9WgXcQ&t=5s
UrlWatch ==
    <<"h","t","t","p","s",":","/","/","y","o","u","t","u","b","e",".","c","o","m","/","w","a","t","c","h","?","v","=">>
        \o VideoIdA \o <<"&","t","=","5","s">>

\* https://youtu.be/xYz_-012345/dQw4w9WgXcQ : two candidate tokens
UrlShort ==
    <<"h","t","t","p","s",":","/","/","y","o","u","t","u",".","b","e","/">>
        \o VideoIdB \o <<"/">> \o VideoIdA

\* https://youtube-nocookie.com/embed/dQw4w9WgXcQ : the host name holds an
\* 11-character token after the second "/"
UrlEmbed ==
    <<"h","t","t","p","s",":","/","/","y","o","u","t","u","b","e","-","n","o","c","o","o","k","i","e",".","c","o","m","/","e","m","b","e","d","/">>
        \o VideoIdA

UrlNotAUrl == <<"n","o","t"," ","a"," ","u","r","l">>

\* https://youtube.com/watch?v=short
UrlTooShort ==
    <<"h","t","t","p","s",":","/","/","y","o","u","t","u","b","e",".","c","o","m","/","w","a","t","c","h","?","v","=","s","h","o","r","t">>

UrlEmpty == <<>>

ValidUrls == {UrlWatch, UrlShort}

InvalidUrls == {UrlNotAUrl, UrlTooShort, UrlEmpty}

Topics == {<<"attention">>, <<"gradient descent">>}

RequestBodies ==
    [video_url : ValidUrls \cup InvalidUrls, topic : Topics]

\* The request bodies of the single-request specification.
AllRequestBodies ==
    RequestBodies \cup {[video_url |-> UrlEmbed, topic |-> <<"attention">>]}

Segment(start, text) == [start |-> start, text |-> text]

\* 0.0 "Hello", 65.25 "World"; then a text of two lines at 3725.0
TranscriptHelloWorld ==
    <<Segment(0, <<"Hello">>), Segment(65 * TicksPerSecond + 1, <<"World">>)>>

TranscriptTwoLines ==
    <<Segment(3725 * TicksPerSecond, <<"two", "\n", "lines">>)>>

FetchOk(data) == [raised |-> FALSE, exc |-> PyNone, data |-> data]

FetchRaises(e) == [raised |-> TRUE, exc |-> e, data |-> <<>>]

FetchErrors ==
    {OtherException("TranscriptsDisabled", <<"Subtitles are disabled for this video">>),
     OtherException("NoTranscriptFound", <<"No transcripts were found">>),
     OtherException("VideoUnavailable", <<"The video is no longer available">>)}

FetchOutcomes ==
    {FetchRaises(e) : e \in FetchErrors}
        \cup {FetchOk(d) : d \in {<<>>, TranscriptHelloWorld, TranscriptTwoLines}}

FewFetchOutcomes ==
    {FetchRaises(e) : e \in FetchErrors} \cup {FetchOk(TranscriptHelloWorld)}

Completion(content) == Reply(StatusOk, <<"{\"choices\": [...]}">>, "completion", content)

ErrorReplies ==
    {Reply(429, <<"rate limit exceeded">>, "body_not_json", PyNone),
     Reply(201, <<"created">>, "body_not_json", PyNone)}

\* ```json\n{"timestamp": "00:02:15"}\n```
FencedJson ==
    <<Backquote, Backquote, Backquote, "j", "s", "o", "n", "\n",
      "{\"timestamp\": \"00:02:15\"}", "\n", Backquote, Backquote, Backquote>>

\* around 00:03:40 he tells
ProseWithClock == <<"around", " ", "00:03:40", " ", "he tells">>

ProseNoClock == <<"I could not find it">>

ContentSamples ==
    {FencedJson, ProseWithClock, ProseNoClock} \cup {<<j>> : j \in JsonTexts}

\* The tokens the enumerated contents are made of.
ContentTokens ==
    {Backquote, "j", "\n", "7", "00:03:40", "{\"timestamp\": \"05:30\"}"}

AllContents == ContentSamples \cup SeqsUpTo(ContentTokens, MaxContentLen)

AllReplies ==
    ErrorReplies
        \cup {Reply(StatusOk, <<"<html>">>, "body_not_json", PyNone),
              Reply(StatusOk, <<"{}">>, "no_choices", PyNone),
              Completion(PyNone)}
        \cup {Completion(PyStr(c)) : c \in AllContents}

FewReplies ==
    {Reply(429, <<"rate limit exceeded">>, "body_not_json", PyNone),
     Completion(PyStr(FencedJson)),
     Completion(PyStr(ProseWithClock)),
     Completion(PyStr(<<"{\"timestamp\": \"05:30\"}">>))}

Token == PyStr(<<"secret-token">>)

ChatUrl == PyStr(<<"https://aipipe.org/openrouter/v1/chat/completions">>)

\* What os.getenv gives for AI_API_TOKEN and CHAT_URL: None when unset.
Environments ==
    {<<Token, ChatUrl>>, <<PyNone, ChatUrl>>, <<PyStr(<<>>), ChatUrl>>,
     <<Token, PyNone>>}

ClockInputs ==
    {((h * 3600 + m * 60 + s) * TicksPerSecond) + f :
        h \in (0..MaxHours) \cup {99, 100},
        m \in {0, 1, 2, 30, 59},
        s \in 0..59,
        f \in 0..(TicksPerSecond - 1)}

SegmentSamples ==
    {Segment(st, tx) :
        st \in {0, 65 * TicksPerSecond + 1, 3725 * TicksPerSecond,
                360000 * TicksPerSecond},
        tx \in {<<"Hello">>, <<>>, <<"two", "\n", "lines">>, <<"\n">>}}

\* The transcript service gives the segments ordered by start time.
TranscriptInputs ==
    {items \in SeqsUpTo(SegmentSamples, MaxSegments) :
        \A i \in 1..(Len(items) - 1) : items[i].start <= items[i + 1].start}

---------------------------------------------------------------------------
(* The state before any request, and the idle values of the variables.     *)

NoRequest == [video_url |-> <<>>, topic |-> <<>>]

NoFetch == FetchOk(<<>>)

NoPost == [chat_url |-> PyNone]

NoReply == Reply(0, <<>>, "none", PyNone)

NoResult == [status_code |-> 0]

HandlerIdle ==
    /\ pc = [r \in Requests |-> "idle"]
    /\ request = [r \in Requests |-> NoRequest]
    /\ video_id = [r \in Requests |-> <<>>]
    /\ fetched = [r \in Requests |-> NoFetch]
    /\ payload = [r \in Requests |-> NoPost]
    /\ response = [r \in Requests |-> NoReply]
    /\ result = [r \in Requests |-> NoResult]
    /\ fetchCalls = [r \in Requests |-> 0]
    /\ postCalls = [r \in Requests |-> 0]

ClockIdle == seconds = 0 /\ time_str = <<>>

FormatIdle == transcript_list = <<>> /\ formatted_transcript = <<"(none)">>

Init ==
    /\ \E env \in Environments : aiToken = env[1] /\ chatUrl = env[2]
    /\ HandlerIdle
    /\ ClockIdle
    /\ FormatIdle

---------------------------------------------------------------------------
(* The handler ask_video_topic, one action per stretch of code between two *)
(* blocking calls.  FastAPI runs a "def" handler in a thread pool, so the  *)
(* stretches of different requests interleave.                             *)

\* The mutation: the request is kept in a module-level variable that every
\* arriving request overwrites; a handler reads the one that arrived last.
SharedRequest(r) ==
    request[Max({q \in Requests : pc[q] # "idle"} \cup {r})]

\* The request parameter of the invocation that handles r (src/main.py 53).
CurrentRequest(r) == request[r]

Finish(r, res) ==
    /\ result' = [result EXCEPT ![r] = res]
    /\ pc' = [pc EXCEPT ![r] = "done"]

\* POST /ask arrives with a body.
Receive(r, bodies) ==
    /\ pc[r] = "idle"
    /\ \E body \in bodies : request' = [request EXCEPT ![r] = body]
    /\ pc' = [pc EXCEPT ![r] = "received"]
    /\ UNCHANGED <<aiToken, chatUrl, video_id, fetched, payload, response,
                   result, fetchCalls, postCalls>>
    /\ UNCHANGED <<clockVars, formatVars>>

\* Step 1, and the call of YouTubeTranscriptApi().fetch (src/main.py 54-64).
ExtractVideoId(r) ==
    /\ pc[r] = "received"
    /\ LET m == extract_video_id(CurrentRequest(r).video_url)
       IN  IF m.raised
           THEN /\ Finish(r, OuterHandler(m.exc))
                /\ UNCHANGED <<video_id, fetchCalls>>
           ELSE /\ video_id' = [video_id EXCEPT ![r] = m.value]
                /\ fetchCalls' = [fetchCalls EXCEPT ![r] = @ + 1]
                /\ pc' = [pc EXCEPT ![r] = "fetching"]
                /\ UNCHANGED result
    /\ UNCHANGED <<aiToken, chatUrl, request, fetched, payload, response, postCalls>>
    /\ UNCHANGED <<clockVars, formatVars>>

\* fetch returns or raises; steps 2 to 4 and the call of requests.post
\* (src/main.py 64-117).
FetchReturns(r, outcomes) ==
    /\ pc[r] = "fetching"
    /\ \E out \in outcomes :
        /\ fetched' = [fetched EXCEPT ![r] = out]
        /\ IF out.raised
           THEN /\ Finish(r, OuterHandler(TranscriptException(out.exc)))
                /\ UNCHANGED <<payload, postCalls>>
           ELSE IF ~CredentialsOk(aiToken, chatUrl)
           THEN /\ Finish(r, OuterHandler(HTTPException(500, CredentialsMissing)))
                /\ UNCHANGED <<payload, postCalls>>
           ELSE /\ payload' = [payload EXCEPT ![r] =
                        PostArgs(aiToken, chatUrl, CurrentRequest(r).topic,
                                 FormatTranscript(out.data))]
                /\ postCalls' = [postCalls EXCEPT ![r] = @ + 1]
                /\ pc' = [pc EXCEPT ![r] = "posting"]
                /\ UNCHANGED result
    /\ UNCHANGED <<aiToken, chatUrl, request, video_id, response, fetchCalls>>
    /\ UNCHANGED <<clockVars, formatVars>>

\* The transcript service never answers: fetch is called without a timeout
\* (src/main.py 64), so the handler stays in the call.
FetchNeverReturns(r) ==
    /\ pc[r] = "fetching"
    /\ pc' = [pc EXCEPT ![r] = "fetch_blocked"]
    /\ UNCHANGED <<aiToken, chatUrl, request, video_id, fetched, payload,
                   response, result, fetchCalls, postCalls>>
    /\ UNCHANGED <<clockVars, formatVars>>

\* requests.post returns; steps 5 and 6 (src/main.py 117-152).
PostReturns(r, replies) ==
    /\ pc[r] = "posting"
    /\ \E resp \in replies :
        /\ response' = [response EXCEPT ![r] = resp]
        /\ Finish(r, AfterPost(CurrentRequest(r), resp))
    /\ UNCHANGED <<aiToken, chatUrl, request, video_id, fetched, payload,
                   fetchCalls, postCalls>>
    /\ UNCHANGED <<clockVars, formatVars>>

\* The chat endpoint never answers: requests.post is called without a
\* timeout (src/main.py 117), so the handler stays in the call.
PostNeverReturns(r) ==
    /\ pc[r] = "posting"
    /\ pc' = [pc EXCEPT ![r] = "post_blocked"]
    /\ UNCHANGED <<aiToken, chatUrl, request, video_id, fetched, payload,
                   response, result, fetchCalls, postCalls>>
    /\ UNCHANGED <<clockVars, formatVars>>

\* Concurrent requests, each with a few upstream answers.
Next ==
    \E r \in Requests :
        \/ Receive(r, RequestBodies)
        \/ ExtractVideoId(r)
        \/ FetchReturns(r, FewFetchOutcomes)
        \/ FetchNeverReturns(r)
        \/ PostReturns(r, FewReplies)
        \/ PostNeverReturns(r)

Spec == Init /\ [][Next]_vars

\* The handler's own steps are taken whenever they can be: the server runs
\* every request it accepted, and an upstream that answers is heard.
FairSpec == Spec /\ WF_vars(Next)

\* One request, every request body and upstream answer of the model.
NextOne ==
    \/ Receive(1, AllRequestBodies)
    \/ ExtractVideoId(1)
    \/ FetchReturns(1, FetchOutcomes)
    \/ FetchNeverReturns(1)
    \/ PostReturns(1, AllReplies)
    \/ PostNeverReturns(1)

SpecOne == Init /\ [][NextOne]_vars

---------------------------------------------------------------------------
(* seconds_to_hhmmss and the formatting loop on their own.                 *)

InitClock ==
    /\ aiToken = Token /\ chatUrl = ChatUrl
    /\ HandlerIdle
    /\ seconds \in ClockInputs
    /\ time_str = <<>>
    /\ FormatIdle

Convert ==
    /\ time_str = <<>>
    /\ time_str' = seconds_to_hhmmss(seconds)
    /\ UNCHANGED <<handlerVars, seconds, formatVars>>

NextClock == Convert

SpecClock == InitClock /\ [][NextClock]_vars

InitFormat ==
    /\ aiToken = Token /\ chatUrl = ChatUrl
    /\ HandlerIdle
    /\ ClockIdle
    /\ transcript_list \in TranscriptInputs
    /\ formatted_transcript = <<"(none)">>

Format ==
    /\ formatted_transcript = <<"(none)">>
    /\ formatted_transcript' = FormatTranscript(transcript_list)
    /\ UNCHANGED <<handlerVars, clockVars, transcript_list>>

NextFormat == Format

SpecFormat == InitFormat /\ [][NextFormat]_vars

---------------------------------------------------------------------------
(* Properties.                                                             *)

Done(r) == pc[r] = "done"

\* text occurs in s as a run of consecutive tokens.
Contains(s, text) ==
    \E i \in 0..(Len(s) - Len(text)) : SubSeq(s, i + 1, i + Len(text)) = text

\* s.split(sep): the fields between the separators.
RECURSIVE Split(_, _)
Split(s, sep) ==
    IF \A i \in 1..Len(s) : s[i] # sep THEN <<s>>
    ELSE LET i == Min({k \in 1..Len(s) : s[k] = sep})
         IN  <<SubSeq(s, 1, i - 1)>> \o Split(SubSeq(s, i + 1, Len(s)), sep)

\* The URL holds no 11-character [0-9A-Za-z_-] token directly after "v=" or "/".
NoIdToken(url) ==
    ~\E i \in 1..Len(url) :
        /\ \/ url[i] = "/"
           \/ i > 1 /\ url[i - 1] = "v" /\ url[i] = "="
        /\ i + 11 <= Len(url)
        /\ \A k \in 1..11 : url[i + k] \in IdChars

\* C1: a request whose video_url holds no 11-character token after "v=" or
\* "/" ends with status 400 and detail "Invalid YouTube URL", and neither
\* the transcript fetch nor the completion call is made for it.
C1_InvalidUrlGives400 ==
    \A r \in Requests :
        (Done(r) /\ NoIdToken(request[r].video_url)) =>
            /\ result[r].status_code = 400
            /\ result[r].detail = InvalidUrl
            /\ fetchCalls[r] = 0
            /\ postCalls[r] = 0

\* The transcript fetch of request r raised.
FetchFailed(r) == Done(r) /\ fetchCalls[r] = 1 /\ fetched[r].raised

\* C2: a request whose transcript fetch fails ends with status 400, with a
\* message about disabled subtitles for TranscriptsDisabled, about no
\* transcript found for NoTranscriptFound, and with the exception text in it
\* for any other exception; the completion call is never made.
C2_FetchFailureGives400 ==
    \A r \in Requests :
        FetchFailed(r) =>
            /\ result[r].status_code = 400
            /\ postCalls[r] = 0
            /\ CASE fetched[r].exc.type = "TranscriptsDisabled" ->
                        Contains(result[r].detail, SubtitlesDisabled)
                 [] fetched[r].exc.type = "NoTranscriptFound" ->
                        Contains(result[r].detail, NoTranscript)
                 [] OTHER -> Contains(result[r].detail, fetched[r].exc.detail)

\* requests.post returned status 200 for r with a string as the content.
GotContent(r) ==
    /\ Done(r)
    /\ response[r].status_code = StatusOk
    /\ response[r].kind = "completion"
    /\ response[r].content.type = "str"

\* The substring of a token that matches \d\d:\d\d:\d\d, <<>> when none does.
ClockIn(tok) ==
    CASE tok = "00:03:40" -> <<"0","0",":","0","3",":","4","0">>
      [] tok = "{\"timestamp\": \"00:02:15\"}" -> <<"0","0",":","0","2",":","1","5">>
      [] OTHER -> <<>>

\* The first substring of the text matching \d\d:\d\d:\d\d, else the sentinel.
FirstClock(text) ==
    LET hits == {i \in 1..Len(text) : ClockIn(text[i]) # <<>>}
    IN  IF hits = {} THEN Sentinel ELSE ClockIn(text[Min(hits)])

Cleaned(r) == CleanContent(response[r].content.v)

ModelValue(r) == DictGet(JsonLoads(Cleaned(r)).value, "timestamp")

\* TimestampCodec.normalize of the specification: two fields get "00:" in
\* front, three fields pass, anything else (a value that is no text too) is
\* the sentinel.
Normalized(x) ==
    IF x.type # "str" THEN Sentinel
    ELSE LET raw == Strip(x.v, Whitespace)
             n == Len(Split(raw, ":"))
         IN  IF n = 2 THEN <<"0", "0", ":">> \o raw
             ELSE IF n = 3 THEN raw
             ELSE Sentinel

Answered(r) == GotContent(r) /\ result[r].status_code = StatusOk

UpstreamFailed(r) ==
    Done(r) /\ postCalls[r] > 0 /\ response[r].status_code # StatusOk

\* C5: a non-success status of the completion call ends the request with a
\* 500-class error whose detail carries the upstream body, and the call is
\* made exactly once (no retry).
C5_UpstreamError ==
    \A r \in Requests :
        /\ postCalls[r] <= 1
        /\ UpstreamFailed(r) =>
                /\ result[r].status_code \in 500..599
                /\ Contains(result[r].detail, response[r].text)
                /\ postCalls[r] = 1

C5_Witness ==
    \E r \in Requests :
        /\ UpstreamFailed(r)
        /\ response[r].status_code = 429
        /\ result[r].status_code = 500

\* C6: every request that arrived eventually ends with a response, even
\* when an upstream never answers.
C6_EveryRequestEnds ==
    \A r \in Requests : (pc[r] = "received") ~> Done(r)

\* The API token and the chat URL are both set to something.
Configured ==
    /\ aiToken.type = "str" /\ Len(aiToken.v) > 0
    /\ chatUrl.type = "str" /\ Len(chatUrl.v) > 0

\* Request r got its transcript, so it reached the completion step.
ReachedLlmStep(r) ==
    /\ pc[r] \in {"posting", "post_blocked", "done"}
    /\ fetchCalls[r] = 1
    /\ ~fetched[r].raised

\* C7: with the token or the chat URL not configured, a request that
\* reaches the completion step ends with status 500, and the completion
\* call is never made without a credential and a URL.
C7_MissingConfig ==
    \A r \in Requests :
        /\ (~Configured /\ ReachedLlmStep(r)) =>
                /\ Done(r)
                /\ result[r].status_code = 500
                /\ postCalls[r] = 0
        /\ postCalls[r] > 0 =>
                /\ Configured
                /\ payload[r].chat_url = chatUrl
                /\ payload[r].authorization = <<"Bearer ">> \o aiToken.v

C7_Witness ==
    \E r \in Requests :
        /\ ~Configured
        /\ ReachedLlmStep(r)
        /\ result[r].status_code = 500
        /\ postCalls[r] = 0

\* C8: whatever the interleaving, a request's prompt is made of its own
\* topic and transcript, its outcome is decided by its own body and its own
\* upstream answers, and every 200 response echoes the video_url and topic
\* of the request it answers.
C8_RequestsIndependent ==
    /\ \A r \in Requests :
            /\ postCalls[r] > 0 =>
                    /\ payload[r].prompt_topic = request[r].topic
                    /\ payload[r].prompt_transcript = FormatTranscript(fetched[r].data)
            /\ (Done(r) /\ result[r].status_code = StatusOk) =>
                    /\ result[r].video_url = request[r].video_url
                    /\ result[r].topic = request[r].topic
    /\ \A r, q \in Requests :
            (/\ Done(r) /\ Done(q)
             /\ request[r] = request[q]
             /\ fetched[r] = fetched[q]
             /\ response[r] = response[q]) => result[r] = result[q]

\* Two requests with different bodies were answered while both were in
\* flight: each got its own body back.
C8_Witness ==
    \E r, q \in Requests :
        /\ r # q
        /\ Done(r) /\ result[r].status_code = StatusOk
        /\ Done(q) /\ result[q].status_code = StatusOk
        /\ request[r].topic # request[q].topic
        /\ request[r].video_url # request[q].video_url

\* text with every newline replaced by one space.
NewlinesToSpaces(text) ==
    [i \in 1..Len(text) |-> IF text[i] = "\n" THEN " " ELSE text[i]]

RECURSIVE OneLinePerSegment(_)
OneLinePerSegment(items) ==
    IF items = <<>> THEN <<>>
    ELSE <<"[">> \o seconds_to_hhmmss(items[1].start) \o <<"]", " ">>
            \o NewlinesToSpaces(items[1].text) \o <<"\n">>
            \o OneLinePerSegment(Tail(items))

NumLines(text) == Cardinality({i \in 1..Len(text) : text[i] = "\n"})

Formatted == formatted_transcript # <<"(none)">>

\* C9: the formatted transcript has exactly one line per segment, in
\* segment order, each "[HH:MM:SS] <text>" with the newlines of the text
\* replaced by a space; the empty sequence gives the empty string.
C9_OneLinePerSegment ==
    Formatted =>
        /\ formatted_transcript = OneLinePerSegment(transcript_list)
        /\ NumLines(formatted_transcript) = Len(transcript_list)
        /\ transcript_list = <<>> => formatted_transcript = <<>>

\* The offset is a whole number n of seconds.
WholeSeconds == seconds % TicksPerSecond = 0

Converted == time_str # <<>>

\* C10: for a whole number n >= 0 of seconds the result is H:M:S with
\* H = n div 3600, M = (n mod 3600) div 60, S = n mod 60, each field in
\* decimal digits zero-padded to at least two; M and S are in 00..59,
\* H*3600 + M*60 + S = n, H is wider than two digits only when n >= 360000,
\* and 3725 gives 01:02:05.
C10_Clock ==
    (Converted /\ WholeSeconds) =>
        LET n == seconds \div TicksPerSecond
            f == Split(time_str, ":")
        IN  /\ Len(f) = 3
            /\ \A i \in 1..3 : Len(f[i]) >= 2 /\ Range(f[i]) \subseteq DigitChars
            /\ StrInt(f[1]) = n \div 3600
            /\ StrInt(f[2]) = (n % 3600) \div 60
            /\ StrInt(f[3]) = n % 60
            /\ Len(f[2]) = 2 /\ StrInt(f[2]) \in 0..59
            /\ Len(f[3]) = 2 /\ StrInt(f[3]) \in 0..59
            /\ StrInt(f[1]) * 3600 + StrInt(f[2]) * 60 + StrInt(f[3]) = n
            /\ (Len(f[1]) > 2) <=> (n >= 360000)
            /\ Len(f[1]) > 2 => f[1][1] # "0"
            /\ n = 3725 => time_str = <<"0","1",":","0","2",":","0","5">>

C10_Witness ==
    /\ Converted
    /\ seconds = 3725 * TicksPerSecond
    /\ time_str = <<"0","1",":","0","2",":","0","5">>

===========================================================================
